---------------------------- MODULE Spec2Model ----------------------------
(***************************************************************************)
(* StorageService (NestJS object-storage gateway over a MinIO client).     *)
(*                                                                         *)
(* The model holds the remote store (bucket, bucket policy, objects), the  *)
(* position of the startup hook onModuleInit, the position of one          *)
(* in-flight deleteFolder (its listing and its bulk removal are two store  *)
(* calls with an await between them), and the outcome of the last request. *)
(* Strings are sequences of one-character strings, so that path building,  *)
(* percent-encoding and prefix listing are computed as the code and the    *)
(* store compute them.                                                     *)
(***************************************************************************)
EXTENDS Integers, Sequences, FiniteSets, TLC

VARIABLES
    bucket,         \* TRUE iff the bucket STORAGE_BUCKET exists in the store
    policy,         \* the bucket's policy document, or NoPolicy
    store,          \* object name -> [meta, body], the objects of the bucket
    phase,          \* position of the process: down / checking / making /
                    \* applying / up / aborted
    skipBucketCheck,\* STORAGE_SKIP_BUCKET_CHECK of the current startup
    initCalls,      \* store calls issued by the current onModuleInit, in order
    initError,      \* what the current onModuleInit threw, or NoError
    provisioned,    \* history: an earlier startup with the check not skipped
                    \* completed without error
    df,             \* the in-flight deleteFolder: [pc, prefix, objectsList]
    wroteSinceList, \* history: names under df.prefix written by uploadObject
                    \* after the listing and not removed by deleteObject since
    last            \* the last finished request: its arguments, the outcome
                    \* of its store calls and what the caller received

vars == <<bucket, policy, store, phase, skipBucketCheck, initCalls, initError,
          provisioned, df, wroteSinceList, last>>

---------------------------------------------------------------------------
(* Bounds of the model *)

\* uploads stop adding names once the bucket holds this many objects
MaxObjects == 2

---------------------------------------------------------------------------
(* Strings *)

IsPrefix(p, s) == Len(p) <= Len(s) /\ SubSeq(s, 1, Len(p)) = p

pictures == <<"p","i","c","t","u","r","e","s">>
previews == <<"p","r","e","v","i","e","w","s">>
resumes  == <<"r","e","s","u","m","e","s">>

UploadType == {pictures, previews, resumes}

STORAGE_BUCKET == <<"d","e","f","a","u","l","t">>

STORAGE_URL == <<"h","t","t","p",":","/","/","r","e","s","a","i","p","r","o",
                 ".","c","o","m","/","d","e","f","a","u","l","t">>


---------------------------------------------------------------------------
(* Pure functions of the service *)

\* Characters encodeURIComponent leaves as they are: A-Z a-z 0-9 - _ . ! ~ * ' ( )
Unreserved ==
    {"A","B","C","D","E","F","G","H","I","J","K","L","M","N","O","P","Q","R",
     "S","T","U","V","W","X","Y","Z",
     "a","b","c","d","e","f","g","h","i","j","k","l","m","n","o","p","q","r",
     "s","t","u","v","w","x","y","z",
     "0","1","2","3","4","5","6","7","8","9",
     "-","_",".","!","~","*","'","(",")"}

\* The percent-escape of the other ASCII characters the inputs use.
PercentCode(c) ==
    CASE c = " " -> <<"%","2","0">>
      [] c = "%" -> <<"%","2","5">>
      [] c = "/" -> <<"%","2","F">>
      [] c = "?" -> <<"%","3","F">>
      [] c = "#" -> <<"%","2","3">>
      [] c = "&" -> <<"%","2","6">>
      [] c = "+" -> <<"%","2","B">>
      [] c = ":" -> <<"%","3","A">>
      [] c = "=" -> <<"%","3","D">>

RECURSIVE encodeURIComponent(_)
encodeURIComponent(s) ==
    IF s = <<>> THEN <<>>
    ELSE (IF Head(s) \in Unreserved THEN <<Head(s)>> ELSE PercentCode(Head(s)))
         \o encodeURIComponent(Tail(s))

extension(type) == IF type = resumes THEN <<"p","d","f">> ELSE <<"j","p","g">>

\* filepath of uploadObject
uploadPath(userId, type, filename) ==
    userId \o <<"/">> \o type \o <<"/">> \o encodeURIComponent(filename)
           \o <<".">> \o extension(type)

\* path of deleteObject, forgetting the percent-encoding
deletePathRaw(userId, type, filename) ==
    userId \o <<"/">> \o type \o <<"/">> \o filename \o <<".">> \o extension(type)

\* path of deleteObject
deletePath(userId, type, filename) ==
    userId \o <<"/">> \o type \o <<"/">> \o encodeURIComponent(filename)
           \o <<".">> \o extension(type)

url(filepath) == STORAGE_URL \o <<"/">> \o filepath

metadata(type, filename) ==
    IF extension(type) = <<"j","p","g">>
    THEN [ContentType |-> "image/jpeg", ContentDisposition |-> <<>>]
    ELSE [ContentType |-> "application/pdf",
          ContentDisposition |-> <<"attachment; filename*=UTF-8''">>
                                 \o encodeURIComponent(filename)
                                 \o <<".">> \o extension(type)]

\* x * num / den rounded to the nearest integer
RoundDiv(num, den) == (2 * num + den) \div (2 * den)

\* sharp(buffer).resize({width: 600, height: 600, fit: outside}).jpeg({quality: 80}):
\* the aspect ratio is kept and the image is made as small as possible while
\* both dimensions stay greater than or equal to the ones given; no
\* withoutEnlargement / withoutReduction option is passed.
sharpResize(buffer) ==
    IF buffer.w <= buffer.h
    THEN [kind |-> "jpeg", w |-> 600, h |-> RoundDiv(buffer.h * 600, buffer.w)]
    ELSE [kind |-> "jpeg", w |-> RoundDiv(buffer.w * 600, buffer.h), h |-> 600]

\* PUBLIC_ACCESS_POLICY: each resource is a template with a {{bucketName}} token
PUBLIC_ACCESS_POLICY ==
    [Sid |-> "PublicAccess", Effect |-> "Allow", Action |-> {"s3:GetObject"},
     Principal |-> "*",
     Resource |-> {<<"arn:aws:s3:::", "{{bucketName}}", "/*/pictures/*">>,
                   <<"arn:aws:s3:::", "{{bucketName}}", "/*/previews/*">>,
                   <<"arn:aws:s3:::", "{{bucketName}}", "/*/resumes/*">>}]

\* JSON.stringify(PUBLIC_ACCESS_POLICY).replace(/{{bucketName}}/g, bucketName)
bucketPolicy(bucketName) ==
    [PUBLIC_ACCESS_POLICY EXCEPT !.Resource =
        {[i \in DOMAIN r |-> IF r[i] = "{{bucketName}}" THEN bucketName ELSE r[i]]
            : r \in PUBLIC_ACCESS_POLICY.Resource}]

NoPolicy ==
    [Sid |-> "none", Effect |-> "none", Action |-> {}, Principal |-> "none",
     Resource |-> {}]

---------------------------------------------------------------------------
(* The store's listing and removal *)

HasSlash(s) == \E i \in DOMAIN s : s[i] = "/"

\* client.listObjectsV2(bucketName, prefix, recursive): the names of the
\* objects whose name starts with prefix; without recursive, only those with
\* no further "/" after the prefix.
listObjectsV2(objects, prefix, recursive) ==
    {n \in DOMAIN objects :
        /\ IsPrefix(prefix, n)
        /\ recursive \/ ~HasSlash(SubSeq(n, Len(prefix) + 1, Len(n)))}

\* client.removeObjects(bucketName, objectsList)
removeObjects(objects, objectsList) ==
    [n \in DOMAIN objects \ objectsList |-> objects[n]]

\* client.removeObject(bucketName, path)
removeObject(objects, path) ==
    [n \in DOMAIN objects \ {path} |-> objects[n]]

\* client.putObject(bucketName, filepath, buffer, metadata)
putObject(objects, filepath, buffer, meta) ==
    [n \in DOMAIN objects \cup {filepath} |->
        IF n = filepath THEN [meta |-> meta, body |-> buffer] ELSE objects[n]]

---------------------------------------------------------------------------
(* Inputs *)

Owners == {<<"u","1">>, <<"u","1","0">>}

Filenames == {<<"M","y"," ","R">>}

\* deleteFolder is called with the id of the owner whose objects go
Prefixes == Owners

\* a 2000x1000 picture, a 300x200 picture and a PDF document
Buffers ==
    {[kind |-> "image", w |-> 2000, h |-> 1000],
     [kind |-> "image", w |-> 300, h |-> 200],
     [kind |-> "pdf", w |-> 0, h |-> 0]}

\* the categories and the buffers of the requests that run concurrently
RequestTypes == {pictures, resumes}

RequestBuffers ==
    {[kind |-> "image", w |-> 2000, h |-> 1000],
     [kind |-> "pdf", w |-> 0, h |-> 0]}

---------------------------------------------------------------------------
(* Errors *)

InternalServerErrorException(message) ==
    [class |-> "InternalServerErrorException", message |-> message]

\* what the MinIO client throws
StoreError == [class |-> "S3Error", message |-> "store"]

NoError == [class |-> "none", message |-> "none"]

Idle == [pc |-> "idle", prefix |-> <<>>, objectsList |-> {}]

NoCalls == [put |-> "none", stat |-> "none", remove |-> "none",
            list |-> "none", exists |-> "none"]

\* removed: the stored names the request removed; listed, written: the
\* objectsList of a deleteFolder and the names written since its listing
NoRequest ==
    [op |-> "none", key |-> <<>>, calls |-> NoCalls, result |-> NoError,
     removed |-> {}, listed |-> {}, written |-> {}]

Request(op, key, calls, result) ==
    [op |-> op, key |-> key, calls |-> calls, result |-> result,
     removed |-> {}, listed |-> {}, written |-> {}]

Call(name, ok) == [call |-> name, ok |-> ok]

---------------------------------------------------------------------------
(* State after construction, against a fresh store *)

Init ==
    /\ bucket = FALSE
    /\ policy = NoPolicy
    /\ store = <<>>
    /\ phase = "down"
    /\ skipBucketCheck = FALSE
    /\ initCalls = <<>>
    /\ initError = NoError
    /\ provisioned = FALSE
    /\ df = Idle
    /\ wroteSinceList = {}
    /\ last = NoRequest

\* The state once a first startup has created the bucket and applied the
\* policy (a state SpecProvisioning reaches by Start, CheckBucket, MakeBucket,
\* SetBucketPolicy)
InitUp ==
    /\ bucket = TRUE
    /\ policy = bucketPolicy(STORAGE_BUCKET)
    /\ store = <<>>
    /\ phase = "up"
    /\ skipBucketCheck = FALSE
    /\ initCalls = <<Call("bucketExists", TRUE), Call("makeBucket", TRUE),
                     Call("setBucketPolicy", TRUE)>>
    /\ initError = NoError
    /\ provisioned = FALSE
    /\ df = Idle
    /\ wroteSinceList = {}
    /\ last = NoRequest

---------------------------------------------------------------------------
(* onModuleInit *)

\* The process starts, or is restarted once onModuleInit has returned or
\* thrown, and onModuleInit begins: lines 114-127.  A restart ends the requests
\* in flight and their callers.
Start(skip) ==
    /\ phase \in {"down", "up", "aborted"}
    /\ skipBucketCheck' = skip
    /\ initCalls' = <<>>
    /\ initError' = NoError
    /\ phase' = IF skip THEN "up" ELSE "checking"
    /\ provisioned' = (provisioned \/ (phase = "up" /\ ~skipBucketCheck))
    /\ df' = Idle
    /\ wroteSinceList' = {}
    /\ last' = NoRequest
    /\ UNCHANGED <<bucket, policy, store>>

\* the outer catch: throw new InternalServerErrorException(error)
OuterCatch(error) == InternalServerErrorException(error.message)

\* the branch on the result of client.bucketExists, always creating
AfterBucketExistsAlwaysCreate(exists) == "making"

\* the branch on the result of client.bucketExists
AfterBucketExists(exists) == IF exists THEN "up" ELSE "making"

\* await this.client.bucketExists(this.bucketName) in onModuleInit
CheckBucket(ok) ==
    /\ phase = "checking"
    /\ initCalls' = Append(initCalls, Call("bucketExists", ok))
    /\ IF ok
       THEN /\ phase' = AfterBucketExists(bucket)
            /\ UNCHANGED initError
       ELSE /\ phase' = "aborted"
            /\ initError' = OuterCatch(StoreError)
    /\ UNCHANGED <<bucket, policy, store, skipBucketCheck, provisioned, df,
                   wroteSinceList, last>>

\* a catch block of makeBucket that logs and does not throw
MakeBucketCatchSwallow ==
    [phase |-> "applying", error |-> NoError]

\* the catch block of makeBucket, and the outer catch its throw reaches
MakeBucketCatch ==
    [phase |-> "aborted",
     error |-> OuterCatch(InternalServerErrorException(
                 "There was an error while creating the storage bucket."))]

\* await this.client.makeBucket(this.bucketName); the store refuses to create
\* a bucket that exists
MakeBucket(ok) ==
    /\ phase = "making"
    /\ ok => ~bucket
    /\ initCalls' = Append(initCalls, Call("makeBucket", ok))
    /\ IF ok
       THEN /\ bucket' = TRUE
            /\ phase' = "applying"
            /\ UNCHANGED initError
       ELSE /\ phase' = MakeBucketCatch.phase
            /\ initError' = MakeBucketCatch.error
            /\ UNCHANGED bucket
    /\ UNCHANGED <<policy, store, skipBucketCheck, provisioned, df,
                   wroteSinceList, last>>

\* await this.client.setBucketPolicy(this.bucketName, bucketPolicy); the store
\* has no policy to set on a bucket that does not exist
SetBucketPolicy(ok) ==
    /\ phase = "applying"
    /\ ok => bucket
    /\ initCalls' = Append(initCalls, Call("setBucketPolicy", ok))
    /\ IF ok
       THEN /\ policy' = bucketPolicy(STORAGE_BUCKET)
            /\ phase' = "up"
            /\ UNCHANGED initError
       ELSE /\ phase' = "aborted"
            /\ initError' = OuterCatch(InternalServerErrorException(
                 "There was an error while applying the policy to the storage bucket."))
            /\ UNCHANGED policy
    /\ UNCHANGED <<bucket, store, skipBucketCheck, provisioned, df,
                   wroteSinceList, last>>

---------------------------------------------------------------------------
(* Requests; the client is set by onModuleInit, so they run once it returned *)

\* Names written under the prefix of the in-flight deleteFolder since its listing
NoteWrite(filepath) ==
    IF df.pc = "listed" /\ IsPrefix(df.prefix, filepath)
    THEN wroteSinceList \cup {filepath}
    ELSE wroteSinceList

\* uploadObject, lines 189-235.  putOk and statOk are the outcomes of the two
\* store calls; sharp throws on a buffer that is no image.
uploadObject(userId, type, buffer, filename, putOk, statOk) ==
    LET filepath == uploadPath(userId, type, filename)
        isImage == extension(type) = <<"j","p","g">>
        sharpFails == isImage /\ buffer.kind # "image"
        body == IF isImage THEN sharpResize(buffer) ELSE buffer
        uploadError == InternalServerErrorException(
                         "There was an error while uploading the file.")
    IN
    /\ phase = "up"
    /\ Cardinality(DOMAIN store \cup {filepath}) <= MaxObjects
    /\ putOk => bucket
    /\ IF sharpFails
       THEN /\ last' = Request("uploadObject", <<>>, NoCalls, uploadError)
            /\ UNCHANGED <<store, wroteSinceList>>
       ELSE IF ~putOk
       THEN /\ last' = Request("uploadObject", <<>>,
                               [NoCalls EXCEPT !.put = "failed"], uploadError)
            /\ UNCHANGED <<store, wroteSinceList>>
       ELSE /\ store' = putObject(store, filepath, body, metadata(type, filename))
            /\ wroteSinceList' = NoteWrite(filepath)
            /\ last' = Request("uploadObject", <<>>,
                               [NoCalls EXCEPT !.put = "ok",
                                   !.stat = IF statOk THEN "ok" ELSE "failed"],
                               IF statOk
                               THEN [class |-> "url", message |-> url(filepath)]
                               ELSE uploadError)
    /\ UNCHANGED <<bucket, policy, phase, skipBucketCheck, initCalls, initError,
                   provisioned, df>>

\* deleteObject, lines 237-253.  The store removes a name that is absent
\* without an error.
deleteObject(userId, type, filename, ok) ==
    LET path == deletePath(userId, type, filename) IN
    /\ phase = "up"
    /\ ok => bucket
    /\ IF ok
       THEN /\ store' = removeObject(store, path)
            /\ wroteSinceList' = wroteSinceList \ {path}
            /\ last' = [Request("deleteObject", <<userId, type, filename>>,
                                [NoCalls EXCEPT !.remove = "ok"], NoError)
                          EXCEPT !.removed = {path} \cap DOMAIN store]
       ELSE /\ last' = Request("deleteObject", <<userId, type, filename>>,
                               [NoCalls EXCEPT !.remove = "failed"],
                               InternalServerErrorException(
                                 "There was an error while deleting the document at the specified path"))
            /\ UNCHANGED <<store, wroteSinceList>>
    /\ UNCHANGED <<bucket, policy, phase, skipBucketCheck, initCalls, initError,
                   provisioned, df>>

\* bucketExists, lines 174-187: the catch block rethrows what it caught
bucketExists(ok) ==
    /\ phase = "up"
    /\ last' = Request("bucketExists", <<>>,
                       [NoCalls EXCEPT !.exists = IF ok THEN "ok" ELSE "failed"],
                       IF ~ok THEN StoreError
                       ELSE IF ~bucket
                       THEN InternalServerErrorException(
                         "There was an error while checking if the storage bucket exists.")
                       ELSE NoError)
    /\ UNCHANGED <<bucket, policy, store, phase, skipBucketCheck, initCalls,
                   initError, provisioned, df, wroteSinceList>>

\* the listing of deleteFolder made without the recursive flag
deleteFolderListingFlat(prefix) == listObjectsV2(store, prefix, FALSE)

\* the listing of deleteFolder: listObjectsV2(this.bucketName, prefix, true);
\* objectsList is kept as the set of the names pushed
deleteFolderListing(prefix) == listObjectsV2(store, prefix, TRUE)

\* deleteFolder up to the end of its for-await loop, lines 255-262.  The
\* listing is outside the try block: what the stream throws reaches the caller.
deleteFolderList(prefix, ok) ==
    /\ phase = "up"
    /\ df.pc = "idle"
    /\ ok => bucket
    /\ IF ok
       THEN /\ df' = [pc |-> "listed", prefix |-> prefix,
                      objectsList |-> deleteFolderListing(prefix)]
            /\ UNCHANGED last
       ELSE /\ last' = Request("deleteFolder", prefix,
                               [NoCalls EXCEPT !.list = "failed"], StoreError)
            /\ UNCHANGED df
    /\ UNCHANGED <<bucket, policy, store, phase, skipBucketCheck, initCalls,
                   initError, provisioned, wroteSinceList>>

\* a bulk removal of whatever is under the prefix when the removal runs
deleteFolderTargetsByPrefix == listObjectsV2(store, df.prefix, TRUE)

\* the names the bulk removal is issued for: objectsList
deleteFolderTargets == df.objectsList

\* deleteFolder from its try block on, lines 264-275.  A bulk removal that
\* fails may have removed some of the names.
deleteFolderRemove(ok) ==
    /\ phase = "up"
    /\ df.pc = "listed"
    /\ IF ok
       THEN /\ store' = removeObjects(store, deleteFolderTargets)
            /\ last' = [op |-> "deleteFolder", key |-> df.prefix,
                        calls |-> [NoCalls EXCEPT !.list = "ok", !.remove = "ok"],
                        result |-> NoError,
                        removed |-> deleteFolderTargets \cap DOMAIN store,
                        listed |-> df.objectsList, written |-> wroteSinceList]
       ELSE /\ \E done \in SUBSET deleteFolderTargets :
                 store' = removeObjects(store, done)
            /\ last' = [op |-> "deleteFolder", key |-> df.prefix,
                        calls |-> [NoCalls EXCEPT !.list = "ok", !.remove = "failed"],
                        result |-> InternalServerErrorException(
                            "There was an error while deleting the folder at the specified path"),
                        removed |-> {}, listed |-> {}, written |-> {}]
    /\ df' = Idle
    /\ wroteSinceList' = {}
    /\ UNCHANGED <<bucket, policy, phase, skipBucketCheck, initCalls, initError,
                   provisioned>>

---------------------------------------------------------------------------
(* Specifications *)

\* Startups and restarts against a fresh store, with the requests of one owner
NextProvisioning ==
    \/ \E skip \in BOOLEAN : Start(skip)
    \/ \E ok \in BOOLEAN : CheckBucket(ok)
    \/ \E ok \in BOOLEAN : MakeBucket(ok)
    \/ \E ok \in BOOLEAN : SetBucketPolicy(ok)
    \/ \E type \in UploadType, buffer \in Buffers, filename \in Filenames,
          putOk \in BOOLEAN, statOk \in BOOLEAN :
          uploadObject(<<"u","1">>, type, buffer, filename, putOk, statOk)
    \/ \E type \in UploadType, filename \in Filenames, ok \in BOOLEAN :
          deleteObject(<<"u","1">>, type, filename, ok)
    \/ \E ok \in BOOLEAN : bucketExists(ok)

SpecProvisioning == Init /\ [][NextProvisioning]_vars

\* The requests of all owners against the provisioned bucket
NextRequests ==
    \/ \E userId \in Owners, type \in RequestTypes, buffer \in RequestBuffers,
          filename \in Filenames, putOk \in BOOLEAN, statOk \in BOOLEAN :
          uploadObject(userId, type, buffer, filename, putOk, statOk)
    \/ \E userId \in Owners, type \in RequestTypes, filename \in Filenames,
          ok \in BOOLEAN : deleteObject(userId, type, filename, ok)
    \/ \E ok \in BOOLEAN : bucketExists(ok)
    \/ \E prefix \in Prefixes, ok \in BOOLEAN : deleteFolderList(prefix, ok)
    \/ \E ok \in BOOLEAN : deleteFolderRemove(ok)

SpecRequests == InitUp /\ [][NextRequests]_vars

---------------------------------------------------------------------------
(* Provisioning *)

HasPublicReadPolicy == policy = bucketPolicy(STORAGE_BUCKET)

\* C1: every startup with the existence check not skipped that completes
\* without error leaves the bucket existing with the public-read policy
\* applied, whatever startups came before it.
C1_CompletedStartupHasPolicy ==
    (phase = "up" /\ ~skipBucketCheck) => (bucket /\ HasPublicReadPolicy)

Failed(i) == ~initCalls[i].ok

\* C8: with the check not skipped, a provisioning call that fails is the last
\* call onModuleInit makes, and onModuleInit has then thrown an
\* InternalServerErrorException; it has thrown nothing when no call failed.
C8_ProvisioningFailureAborts ==
    /\ \A i \in DOMAIN initCalls :
          Failed(i) => /\ i = Len(initCalls)
                       /\ phase = "aborted"
                       /\ initError.class = "InternalServerErrorException"
    /\ (\A i \in DOMAIN initCalls : ~Failed(i)) =>
          (phase # "aborted" /\ initError = NoError)

C8_Witness ==
    /\ phase = "aborted"
    /\ initCalls = <<Call("bucketExists", TRUE), Call("makeBucket", FALSE)>>
    /\ ~bucket

OnModuleInitStep ==
    \/ \E skip \in BOOLEAN : Start(skip)
    \/ \E ok \in BOOLEAN : CheckBucket(ok)
    \/ \E ok \in BOOLEAN : MakeBucket(ok)
    \/ \E ok \in BOOLEAN : SetBucketPolicy(ok)

---------------------------------------------------------------------------
(* Errors the caller receives *)

\* C2: an uploadObject whose putObject succeeded returns the public URL,
\* whatever statObject did; it throws only when sharp or putObject failed.
C2_StatDoesNotGateUpload ==
    last.op = "uploadObject" =>
        /\ last.calls.put = "ok" => last.result.class = "url"
        /\ last.result.class \in {"url", "InternalServerErrorException"}

StoreCallFailed == \E c \in DOMAIN last.calls : last.calls[c] = "failed"

\* C3: a request one of whose store calls failed gives its caller an
\* InternalServerErrorException, never the error of the store.
C3_StoreFailureIsInternalError ==
    StoreCallFailed => last.result.class = "InternalServerErrorException"

---------------------------------------------------------------------------
(* Images *)

Max(a, b) == IF a >= b THEN a ELSE b

\* C6: the picture stored by an upload has no dimension above 600 px.
C6_StoredImageAtMost600 ==
    \A n \in DOMAIN store :
        store[n].body.kind = "jpeg" => Max(store[n].body.w, store[n].body.h) <= 600

---------------------------------------------------------------------------
(* deleteFolder *)

DeleteFolderReturned == last.op = "deleteFolder" /\ last.result = NoError

\* C4: when nothing was written under the prefix between the listing and the
\* removal, a deleteFolder(prefix) that returned without error has left no
\* object whose name starts with prefix.
C4_DeleteFolderEmptiesPrefix ==
    (DeleteFolderReturned /\ last.written = {}) =>
        listObjectsV2(store, last.key, TRUE) = {}

C4_Witness ==
    /\ DeleteFolderReturned
    /\ last.written = {}
    /\ last.removed # {}
    /\ store # <<>>

OwnedBy(userId, n) == IsPrefix(userId \o <<"/">>, n)

\* C10: a deleteFolder called with an owner's id removes objects of that owner
\* only.
C10_DeleteFolderScopedToOwner ==
    (DeleteFolderReturned /\ last.key \in Owners) =>
        \A n \in last.removed : OwnedBy(last.key, n)

---------------------------------------------------------------------------
(* Object paths *)

Triples == Owners \X UploadType \X
           {<<"a">>, <<"M","y"," ","R">>, <<"M","y","%","2","0","R">>,
            <<"a","/","b">>, <<"a",".","j","p","g">>}

PathOf(t) == uploadPath(t[1], t[2], t[3])

\* C7: uploadObject and deleteObject derive the same path from the same
\* (userId, type, filename), distinct triples have distinct paths, and a
\* deleteObject that returned without error has removed the object uploaded
\* under its triple and left the object of every other triple as it was.
\* (The first conjunct speaks of no variable: it is evaluated once.)
C7_DeleteRemovesItsObjectOnly ==
    /\ \A t \in Triples :
          /\ deletePath(t[1], t[2], t[3]) = PathOf(t)
          /\ \A u \in Triples : t # u => PathOf(t) # PathOf(u)
    /\ [][(last'.op = "deleteObject" /\ last'.result = NoError) =>
            /\ PathOf(last'.key) \notin DOMAIN store'
            /\ \A u \in Owners \X RequestTypes \X Filenames :
                 (u # last'.key /\ PathOf(u) \in DOMAIN store) =>
                    /\ PathOf(u) \in DOMAIN store'
                    /\ store'[PathOf(u)] = store[PathOf(u)]]_vars

C7_Witness ==
    /\ last.op = "deleteObject"
    /\ last.result = NoError
    /\ last.removed = {PathOf(last.key)}
    /\ store # <<>>

============================================================================
